---- MODULE Spec2Model ----
(***************************************************************************)
(* A model of bin/generateBibfile.py: the text normalisation functions     *)
(* (isCommittee, sort_by_handle, fixTex, checkFixAuthAndComma, fixTexSS),  *)
(* create_bibentries, and the merge and sort of generate_bibfile.          *)
(*                                                                         *)
(* A Python str is a sequence of code points (naturals), so that case      *)
(* folding, the ASCII probe and the ordering of strings are computed the   *)
(* way Python computes them.  A dict is a sequence of <<key, value>> pairs *)
(* in insertion order.                                                     *)
(*                                                                         *)
(* The month and year of an entry (lines 142-144, 155, 157) are left out:  *)
(* they depend on the local time zone and nothing below reads them.        *)
(***************************************************************************)
EXTENDS Integers, Sequences, FiniteSets, TLC

VARIABLES
    pc,           \* generate_bibfile: the statement reached
    res,          \* the hits the search returned (res["hits"])
    external,     \* the external bib files, parsed, in the order given
    search_data,  \* create_bibentries(res).entries
    all_data,     \* the BibDict of line 108
    nread,        \* how many external files the loop of line 110 has read
    bibdata,      \* the keys of the final collection, in the order serialized
    fn,           \* a single function called on its own: which one
    arg,          \*   its argument
    ret           \*   what it returned (pc = "return")

vars == <<pc, res, external, search_data, all_data, nread, bibdata, fn, arg, ret>>

\* a field a hit does not have
Absent == <<-1>>

(***************************************************************************)
(* Bounds of the inputs.                                                   *)
(***************************************************************************)
MaxLen == 3        \* characters of a title or text
MaxTokens == 4     \* tokens of a joined author string
MaxWords == 6      \* words of one author name
MaxDigits == 2     \* digits of a handle's number
MaxHits == 2       \* hits of one search
MaxFiles == 2      \* external bib files

(***************************************************************************)
(* Python str and list primitives.                                         *)
(***************************************************************************)
\* " ".join(parts), ",".join(parts), ...
RECURSIVE join(_, _)
join(sep, parts) ==
    IF parts = <<>> THEN <<>>
    ELSE IF Len(parts) = 1 THEN parts[1]
    ELSE parts[1] \o sep \o join(sep, Tail(parts))

\* sub in text
Contains(text, sub) ==
    \E i \in 0..(Len(text) - Len(sub)) :
        \A j \in 1..Len(sub) : text[i + j] = sub[j]

\* text.replace(old, new) for a one-character old
RECURSIVE replace(_, _, _)
replace(text, old, new) ==
    IF text = <<>> THEN <<>>
    ELSE (IF Head(text) = old THEN new ELSE <<Head(text)>>)
         \o replace(Tail(text), old, new)

\* str.lower() and str.upper() on the ASCII letters
lower(text) == [i \in 1..Len(text) |->
                  IF text[i] \in 65..90 THEN text[i] + 32 ELSE text[i]]
upper(text) == [i \in 1..Len(text) |->
                  IF text[i] \in 97..122 THEN text[i] - 32 ELSE text[i]]

\* the characters str.split() takes as white space
Whitespace == (9..13) \cup (28..32) \cup {133, 160, 5760} \cup (8192..8202)
              \cup {8232, 8233, 8239, 8287, 12288}

\* text.split(): the maximal runs of non-white-space characters
RECURSIVE splitWords(_, _)
splitWords(text, word) ==
    IF text = <<>> THEN (IF word = <<>> THEN <<>> ELSE <<word>>)
    ELSE IF Head(text) \in Whitespace
         THEN (IF word = <<>> THEN <<>> ELSE <<word>>) \o splitWords(Tail(text), <<>>)
         ELSE splitWords(Tail(text), Append(word, Head(text)))
split(text) == splitWords(text, <<>>)

\* text.split(sep) for a one-character sep: every piece, empty ones included
RECURSIVE splitOnFrom(_, _, _)
splitOnFrom(text, sep, piece) ==
    IF text = <<>> THEN <<piece>>
    ELSE IF Head(text) = sep
         THEN <<piece>> \o splitOnFrom(Tail(text), sep, <<>>)
         ELSE splitOnFrom(Tail(text), sep, Append(piece, Head(text)))
splitOn(text, sep) == splitOnFrom(text, sep, <<>>)

\* text.lstrip(c)
RECURSIVE lstrip(_, _)
lstrip(text, c) ==
    IF text # <<>> /\ Head(text) = c THEN lstrip(Tail(text), c) ELSE text

\* a < b for two str: the first differing code point decides, a proper
\* prefix is smaller
RECURSIVE StrLess(_, _)
StrLess(a, b) ==
    IF b = <<>> THEN FALSE
    ELSE IF a = <<>> THEN TRUE
    ELSE IF Head(a) # Head(b) THEN Head(a) < Head(b)
    ELSE StrLess(Tail(a), Tail(b))

\* sorted(...): a stable sort of <<sort key, item>> pairs by sort key; equal
\* sort keys stay in the order they came in
RECURSIVE stableSort(_)
stableSort(pairs) ==
    IF pairs = <<>> THEN <<>>
    ELSE LET n == Len(pairs)
             x == pairs[n]
             s == stableSort(SubSeq(pairs, 1, n - 1))
             \* x goes after every element whose sort key is <= its own
             p == Cardinality({i \in 1..Len(s) : ~StrLess(x[1], s[i][1])})
         IN  SubSeq(s, 1, p) \o <<x>> \o SubSeq(s, p + 1, Len(s))

(***************************************************************************)
(* isCommittee (lines 23-41).                                              *)
(***************************************************************************)
S_committee == <<99, 111, 109, 109, 105, 116, 116, 101, 101>>   \* "committee"
S_group == <<103, 114, 111, 117, 112>>                          \* "group"

\* isCommittee taking five words for a group already
isCommitteeFiveWords(author) ==
    IF Contains(author, <<44>>) THEN FALSE
    ELSE LET authorl == lower(author) IN
         IF Contains(authorl, S_committee) THEN TRUE
         ELSE IF Contains(authorl, S_group) THEN TRUE
         ELSE Len(split(author)) >= 5

isCommittee(author) ==
    IF Contains(author, <<44>>) THEN FALSE               \* "," in author
    ELSE LET authorl == lower(author) IN
         IF Contains(authorl, S_committee) THEN TRUE
         ELSE IF Contains(authorl, S_group) THEN TRUE
         ELSE Len(split(author)) > 5

(***************************************************************************)
(* sort_by_handle (lines 44-57).                                           *)
(***************************************************************************)
PadWidth == 9     \* the 09d of line 57

IsDigits(text) == text # <<>> /\ \A i \in 1..Len(text) : text[i] \in 48..57

\* int(num) of a string of decimal digits
RECURSIVE int(_)
int(num) ==
    IF num = <<>> THEN 0
    ELSE 10 * int(SubSeq(num, 1, Len(num) - 1)) + (num[Len(num)] - 48)

\* str(n) for n >= 0
RECURSIVE str(_)
str(n) == IF n < 10 THEN <<48 + n>> ELSE Append(str(n \div 10), 48 + (n % 10))

\* f"{n:09d}": padded with zeros up to the width, never cut
zeroPad(n) ==
    LET s == str(n) IN
    IF Len(s) >= PadWidth THEN s
    ELSE [i \in 1..(PadWidth - Len(s)) |-> 48] \o s

\* The keys of the model hold letters, digits and "-" only, so int() raises
\* exactly on a string that is empty or holds a letter.
sort_by_handle(key) ==
    LET parts == splitOn(key, 45) IN
    IF Len(parts) # 2 THEN key             \* the unpacking raises ValueError
    ELSE LET hdl == parts[1]
             num == lstrip(parts[2], 48)
         IN  IF ~IsDigits(num) THEN key    \* int(num) raises ValueError
             ELSE upper(hdl) \o <<45>> \o zeroPad(int(num))

(***************************************************************************)
(* fixTex (lines 169-178).                                                 *)
(***************************************************************************)
\* the special characters with the backslash among them, escaped last
specialCharsAndBackslash == <<95, 36, 38, 37, 94, 35, 92>>

specialChars == <<95, 36, 38, 37, 94, 35>>     \* "_$&%^#"

RECURSIVE fixTexLoop(_, _)
fixTexLoop(text, cs) ==
    IF cs = <<>> THEN text
    ELSE fixTexLoop(replace(text, Head(cs), <<92, Head(cs)>>), Tail(cs))

fixTex(text) == fixTexLoop(text, specialChars)

(***************************************************************************)
(* checkFixAuthAndComma (lines 181-195).                                   *)
(***************************************************************************)
S_and == <<32, 97, 110, 100>>                  \* " and"

checkFixAuthAndComma(authors) ==
    LET a1 == IF Contains(authors, <<44>>) THEN replace(authors, 44, S_and)
              ELSE authors
    IN  IF Contains(a1, <<38>>) THEN replace(a1, 38, S_and) ELSE a1

(***************************************************************************)
(* fixTexSS (lines 198-259).                                               *)
(***************************************************************************)
SubstTable ==
    << <<8217, <<39>>>>,                         \* 213: U+2019 -> '
       <<8230, <<46, 46, 46>>>>,                 \* 214: U+2026 -> ...
       <<8220, <<34>>>>,                         \* 215: U+201C -> "
       <<8221, <<34>>>>,                         \* 216: U+201D -> "
       <<180, <<39>>>>,                          \* 217: U+00B4 -> '
       <<160, <<32>>>>,                          \* 218: U+00A0 -> space
       <<8211, <<45>>>>,                         \* 219: U+2013 -> -
       <<8212, <<45>>>>,                         \* 220: U+2014 -> -
       <<1113102, <<63>>>>,                      \* 221: U+10FC0E -> ?
       <<65311, <<63>>>>,                        \* 222: U+FF1F -> ?
       <<224, <<92, 96, 123, 97, 125>>>>,        \* 223: U+00E0 -> \`{a}
       <<225, <<92, 39, 123, 97, 125>>>>,        \* 224: U+00E1 -> \'{a}
       <<226, <<92, 114, 123, 97, 125>>>>,       \* 225: U+00E2 -> \r{a}
       <<199, <<92, 99, 123, 67, 125>>>>,        \* 226: U+00C7 -> \c{C}
       <<263, <<92, 39, 123, 99, 125>>>>,        \* 227: U+0107 -> \'{c}
       <<231, <<92, 99, 123, 99, 125>>>>,        \* 228: U+00E7 -> \c{c}
       <<235, <<92, 34, 123, 101, 125>>>>,       \* 229: U+00EB -> \"{e}
       <<233, <<92, 39, 123, 101, 125>>>>,       \* 230: U+00E9 -> \'{e}
       <<232, <<92, 96, 123, 101, 125>>>>,       \* 231: U+00E8 -> \`{e}
       <<234, <<92, 114, 123, 101, 125>>>>,      \* 232: U+00EA -> \r{e}
       <<161, <<105>>>>,                         \* 233: U+00A1 -> i
       <<237, <<92, 39, 123, 105, 125>>>>,       \* 234: U+00ED -> \'{i}
       <<243, <<92, 39, 123, 111, 125>>>>,       \* 235: U+00F3 -> \'{o}
       <<241, <<92, 126, 123, 110, 125>>>>,      \* 236: U+00F1 -> \~{n}
       <<246, <<92, 34, 123, 111, 125>>>>,       \* 237: U+00F6 -> \"{o}
       <<251, <<92, 114, 123, 117, 125>>>>,      \* 238: U+00FB -> \r{u}
       <<252, <<92, 34, 123, 117, 125>>>>,       \* 239: U+00FC -> \"{u}
       <<249, <<92, 96, 123, 117, 125>>>>,       \* 240: U+00F9 -> \`{u}
       <<382, <<123, 92, 118, 32, 122, 125>>>>,  \* 241: U+017E -> {\v z}
       <<381, <<123, 92, 118, 32, 90, 125>>>>,   \* 242: U+017D -> {\v Z}
       <<1113102, <<32>>>>,                      \* 243: U+10FC0E -> space
       <<239, <<92, 34, 123, 105, 125>>>>,       \* 244: U+00EF -> \"{i}
       <<244, <<92, 114, 123, 111, 125>>>>,      \* 245: U+00F4 -> \r{o}
       <<8216, <<39>>>>,                         \* 246: U+2018 -> '
       <<699, <<39>>>>,                          \* 247: U+02BB -> '
       <<185, <<>>>>,                            \* 248: U+00B9 -> (nothing)
       <<178, <<>>>>,                            \* 249: U+00B2 -> (nothing)
       <<179, <<>>>>,                            \* 250: U+00B3 -> (nothing)
       <<178, <<>>>>,                            \* 251: U+00B2 -> (nothing)
       <<8308, <<>>>>,                           \* 252: U+2074 -> (nothing)
       <<8309, <<>>>>,                           \* 253: U+2075 -> (nothing)
       <<8310, <<>>>>,                           \* 254: U+2076 -> (nothing)
       <<8311, <<>>>>,                           \* 255: U+2077 -> (nothing)
       <<8312, <<>>>> >>                         \* 256: U+2078 -> (nothing)

\* text.encode("ascii") succeeds
IsAscii(text) == \A i \in 1..Len(text) : text[i] < 128

\* for ci, co in pairs: text = text.replace(ci, co)
RECURSIVE applyPairs(_, _)
applyPairs(pairs, text) ==
    IF pairs = <<>> THEN text
    ELSE applyPairs(Tail(pairs), replace(text, pairs[1][1], pairs[1][2]))

fixTexSS(text) == IF IsAscii(text) THEN text ELSE applyPairs(SubstTable, text)

(***************************************************************************)
(* create_bibentries (lines 130-166).                                      *)
(***************************************************************************)
S_TESTN == <<84, 69, 83, 84, 78>>                               \* "TESTN"
S_and_sep == <<32, 97, 110, 100, 32>>                           \* " and "
S_ls_st == <<104, 116, 116, 112, 115, 58, 47, 47, 108, 115, 46, 115, 116, 47>>
                                                                \* "https://ls.st/"
S_publisher == <<86, 101, 114, 97, 32, 67, 46, 32, 82, 117, 98, 105, 110, 32,
                 79, 98, 115, 101, 114, 118, 97, 116, 111, 114, 121>>
                                                  \* "Vera C. Rubin Observatory"

\* the test of line 135 against the tag in lower case
isTestSeriesLowerCase(d) == "series" \in DOMAIN d /\ d.series = lower(S_TESTN)

\* line 135: the hit is skipped
isTestSeries(d) == "series" \in DOMAIN d /\ d.series = S_TESTN

\* lines 138-141
authorsOf(d) ==
    IF Len(d.authorNames) = 1 /\ isCommittee(d.authorNames[1])
    THEN <<123>> \o d.authorNames[1] \o <<125>>
    ELSE join(S_and_sep, d.authorNames)

\* lines 145-151 with the base URL never looked at
urlOfHandleOnly(d) == S_ls_st \o d.handle

\* lines 145-151
urlOf(d) == IF "baseUrl" \in DOMAIN d THEN d.baseUrl ELSE S_ls_st \o d.handle

\* bibtools.BibEntry(...).get_pybtex(): an entry whose key is the handle
BibEntry(author, title, handle, url, publisher) ==
    [key |-> handle, author |-> author, title |-> title, url |-> url,
     publisher |-> publisher]

\* lines 152-161
entryOf(d) ==
    BibEntry(checkFixAuthAndComma(fixTexSS(authorsOf(d))), fixTex(d.h1),
             d.handle, urlOf(d), S_publisher)

\* dict[key] = value on a plain dict: the same key is overwritten in place
dictSet(dict, key, value) ==
    IF \E i \in 1..Len(dict) : dict[i][1] = key
    THEN [i \in 1..Len(dict) |->
            IF dict[i][1] = key THEN <<key, value>> ELSE dict[i]]
    ELSE Append(dict, <<key, value>>)

\* the loop of lines 134-162
RECURSIVE hitsLoop(_, _)
hitsLoop(entries, hits) ==
    IF hits = <<>> THEN entries
    ELSE LET d == Head(hits) IN
         IF isTestSeries(d) THEN hitsLoop(entries, Tail(hits))
         ELSE LET entry == entryOf(d) IN
              hitsLoop(dictSet(entries, entry.key, entry), Tail(hits))

\* {k: entries[k] for k in sorted(entries)}
sortedDict(entries) ==
    LET s == stableSort([i \in 1..Len(entries) |-> <<entries[i][1], entries[i]>>])
    IN  [i \in 1..Len(s) |-> s[i][2]]

\* BibliographyData(entries=...): pybtex raises BibliographyDataError on two
\* keys equal ignoring case (lines 104-107)
BibliographyData(entries) ==
    IF \E i, j \in 1..Len(entries) :
           i < j /\ lower(entries[i][1]) = lower(entries[j][1])
    THEN [raised |-> TRUE, entries |-> <<>>]
    ELSE [raised |-> FALSE, entries |-> entries]

create_bibentries(hits) == BibliographyData(sortedDict(hitsLoop(<<>>, hits)))

(***************************************************************************)
(* bibtools.BibDict: keys compared ignoring case, the first casing kept.   *)
(***************************************************************************)
BibDictSet(dict, key, value) ==
    IF \E i \in 1..Len(dict) : lower(dict[i][1]) = lower(key)
    THEN [i \in 1..Len(dict) |->
            IF lower(dict[i][1]) = lower(key) THEN <<dict[i][1], value>>
            ELSE dict[i]]
    ELSE Append(dict, <<key, value>>)

RECURSIVE BibDictUpdate(_, _)
BibDictUpdate(dict, entries) ==
    IF entries = <<>> THEN dict
    ELSE BibDictUpdate(BibDictSet(dict, entries[1][1], entries[1][2]), Tail(entries))

\* what a plain dict would do with the same update
RECURSIVE plainDictUpdate(_, _)
plainDictUpdate(dict, entries) ==
    IF entries = <<>> THEN dict
    ELSE plainDictUpdate(dictSet(dict, entries[1][1], entries[1][2]), Tail(entries))

\* an update that keeps the entry already stored
RECURSIVE keepOldUpdate(_, _)
keepOldUpdate(dict, entries) ==
    IF entries = <<>> THEN dict
    ELSE keepOldUpdate(
             IF \E i \in 1..Len(dict) : lower(dict[i][1]) = lower(entries[1][1])
             THEN dict ELSE Append(dict, entries[1]),
             Tail(entries))

(***************************************************************************)
(* generate_bibfile (lines 60-127).                                        *)
(***************************************************************************)
\* all_data.update(...) of lines 113 and 116, all_data being a BibDict
allDataUpdate(dict, entries) == BibDictUpdate(dict, entries)

\* sorted(all_data, key=sort_by_handle) of line 119, with the entries
sortedByHandle(dict) ==
    LET s == stableSort([i \in 1..Len(dict) |->
                            <<sort_by_handle(dict[i][1]), dict[i]>>])
    IN  [i \in 1..Len(s) |-> s[i][2]]

\* lines 97-108: the search, create_bibentries, and the empty BibDict
Search ==
    /\ pc = "search"
    /\ search_data' = create_bibentries(res).entries
    /\ all_data' = <<>>
    /\ pc' = IF create_bibentries(res).raised THEN "failed" ELSE "read"
    /\ UNCHANGED <<res, external, nread, bibdata, fn, arg, ret>>

\* lines 110-113: one turn of the loop over the external files
ReadExternal ==
    /\ pc = "read"
    /\ nread < Len(external)
    /\ all_data' = allDataUpdate(all_data, external[nread + 1])
    /\ nread' = nread + 1
    /\ UNCHANGED <<pc, res, external, search_data, bibdata, fn, arg, ret>>

\* line 116, once the loop has ended
OverwriteFromSearch ==
    /\ pc = "read"
    /\ nread = Len(external)
    /\ all_data' = allDataUpdate(all_data, search_data)
    /\ pc' = "sort"
    /\ UNCHANGED <<res, external, search_data, nread, bibdata, fn, arg, ret>>

\* lines 118-127: the sorted collection, serialized in that order
Rebuild ==
    /\ pc = "sort"
    /\ bibdata' = BibliographyData(sortedByHandle(all_data)).entries
    /\ pc' = "done"
    /\ UNCHANGED <<res, external, search_data, all_data, nread, fn, arg, ret>>

\* generate_bibfile as a function of the hits and the files: the entries it
\* serializes, in order
RECURSIVE readAll(_, _)
readAll(dict, files) ==
    IF files = <<>> THEN dict
    ELSE readAll(allDataUpdate(dict, Head(files)), Tail(files))

generate_bibfile(hits, files) ==
    LET found == create_bibentries(hits) IN
    IF found.raised THEN found
    ELSE BibliographyData(
             sortedByHandle(allDataUpdate(readAll(<<>>, files), found.entries)))

(***************************************************************************)
(* The inputs.                                                             *)
(***************************************************************************)
SeqsUpTo(S, n) == UNION {[1..k -> S] : k \in 0..n}

Distinct(s) == \A i, j \in 1..Len(s) : i # j => s[i] # s[j]

S_D_8 == <<68, 45, 56>>          \* "D-8"
S_d_8 == <<100, 45, 56>>         \* "d-8"
S_D_08 == <<68, 45, 48, 56>>     \* "D-08"
S_D_11 == <<68, 45, 49, 49>>     \* "D-11"
S_Doe == <<68, 111, 101>>        \* "Doe"
S_title == <<65, 32, 38, 32, 66, 95, 67>>    \* "A & B_C"
S_DMTN == <<68, 77, 84, 78>>     \* "DMTN"
S_baseUrl == <<104, 116, 116, 112, 115, 58, 47, 47, 100, 109, 116, 110, 46,
               108, 115, 115, 116, 46, 105, 111>>   \* "https://dmtn.lsst.io"

\* a hit: handle, h1 and authorNames always, series and baseUrl when given
Hit(handle, names, series, baseUrl) ==
    LET base == [handle |-> handle, h1 |-> S_title, authorNames |-> names]
        withSeries == IF series = Absent THEN base
                      ELSE [x \in DOMAIN base \cup {"series"} |->
                              IF x = "series" THEN series ELSE base[x]]
    IN  IF baseUrl = Absent THEN withSeries
        ELSE [x \in DOMAIN withSeries \cup {"baseUrl"} |->
                IF x = "baseUrl" THEN baseUrl ELSE withSeries[x]]

HitHandles == {S_d_8, S_D_8, S_D_11}

\* generate_bibfile: the hits of a search, one per document
SearchHits ==
    {h \in SeqsUpTo({Hit(k, <<S_Doe>>, S_DMTN, Absent) : k \in HitHandles}, MaxHits) :
        Distinct(h)}

\* an external bib file as parsed: entries in file order, no two keys equal
\* ignoring case (the parser refuses such a file)
FileKeys == {S_D_8, S_d_8, S_D_08}
FileTitles == {<<65>>, <<66>>}                \* "A", "B"
FileEntry(key, title) == <<key, BibEntry(S_Doe, title, key, <<>>, <<>>)>>
Files ==
    {[i \in 1..Len(ks) |-> FileEntry(ks[i], t)] :
        ks \in {s \in SeqsUpTo(FileKeys, Cardinality(FileKeys)) :
                  \A i, j \in 1..Len(s) : i # j => lower(s[i]) # lower(s[j])},
        t \in FileTitles}

Init ==
    /\ pc = "search"
    /\ res \in SearchHits
    /\ external \in SeqsUpTo(Files, MaxFiles)
    /\ search_data = <<>>
    /\ all_data = <<>>
    /\ nread = 0
    /\ bibdata = <<>>
    /\ fn = "generate_bibfile" /\ arg = <<>> /\ ret = <<>>

Next == Search \/ ReadExternal \/ OverwriteFromSearch \/ Rebuild

Spec == Init /\ [][Next]_vars

(***************************************************************************)
(* The functions called one at a time on bounded inputs: pc goes from      *)
(* "call" to "return".                                                     *)
(***************************************************************************)
concat(parts) == join(<<>>, parts)

\* titles for fixTex: the special characters, a letter, a blank, a backslash
TitleChars == {65, 32, 95, 36, 38, 37, 94, 35, 92}
Titles == SeqsUpTo(TitleChars, MaxLen) \cup {S_title}

\* texts for fixTexSS: a letter, e acute, U+10FC0E, superscript two, the
\* ellipsis, and a character the table does not list (U+4E2D)
TextChars == {97, 233, 1113102, 178, 8230, 20013}
Texts == SeqsUpTo(TextChars, MaxLen)

\* joined author strings for checkFixAuthAndComma
S_Smith_J_and_Doe_K == <<83, 109, 105, 116, 104, 44, 32, 74, 46, 32, 97, 110,
                         100, 32, 68, 111, 101, 44, 32, 75, 46>>
                                                  \* "Smith, J. and Doe, K."
AuthorTokens == {S_Doe, <<44>>, <<38>>, <<32>>, S_and_sep}
JoinedAuthors ==
    {concat(t) : t \in SeqsUpTo(AuthorTokens, MaxTokens)} \cup {S_Smith_J_and_Doe_K}

\* keys for sort_by_handle: <prefix>-<digits>, and keys of another form
Prefixes == {<<68, 109>>, <<68, 77>>}                   \* "Dm", "DM"
DigitStrings == SeqsUpTo({48, 49, 56}, MaxDigits) \ {<<>>}
OtherKeys == {<<68, 109>>, <<68, 109, 45>>, <<68, 109, 45, 120>>,
              <<68, 109, 45, 49, 45, 56>>}     \* "Dm", "Dm-", "Dm-x", "Dm-1-8"
SortKeys == {p \o <<45>> \o d : p \in Prefixes, d \in DigitStrings} \cup OtherKeys

\* author names for create_bibentries: up to MaxWords words, one blank apart
S_Smith_c == <<83, 109, 105, 116, 104, 44>>                     \* "Smith,"
S_Committee == <<67, 111, 109, 109, 105, 116, 116, 101, 101>>   \* "Committee"
NameWords == {S_Doe, S_Smith_c, S_Committee, S_group}
AuthorNames == {join(<<32>>, w) : w \in SeqsUpTo(NameWords, MaxWords)}
ShortNames == {join(<<32>>, w) : w \in SeqsUpTo(NameWords, 1)}
AuthorLists == {<<>>} \cup {<<a>> : a \in AuthorNames} \cup (ShortNames \X ShortNames)

\* hits for create_bibentries: every combination of handle, series and
\* baseUrl with one author, and one hit for every list of authors
FieldHits ==
    {Hit(k, <<S_Doe>>, sr, u) :
        k \in HitHandles, sr \in {Absent, S_TESTN, S_DMTN}, u \in {Absent, S_baseUrl}}
HitLists ==
    SeqsUpTo(FieldHits, MaxHits)
    \cup {<<Hit(S_D_8, a, S_DMTN, S_baseUrl)>> : a \in AuthorLists}

CallSortByHandle ==
    /\ pc = "call" /\ fn = "sort_by_handle"
    /\ ret' = LET s == stableSort([i \in 1..Len(arg) |->
                                     <<sort_by_handle(arg[i]), arg[i]>>])
              IN  [i \in 1..Len(s) |-> s[i][2]]
    /\ pc' = "return"
    /\ UNCHANGED <<res, external, search_data, all_data, nread, bibdata, fn, arg>>

CallFixTex ==
    /\ pc = "call" /\ fn = "fixTex"
    /\ ret' = fixTex(arg)
    /\ pc' = "return"
    /\ UNCHANGED <<res, external, search_data, all_data, nread, bibdata, fn, arg>>

CallCheckFixAuthAndComma ==
    /\ pc = "call" /\ fn = "checkFixAuthAndComma"
    /\ ret' = checkFixAuthAndComma(arg)
    /\ pc' = "return"
    /\ UNCHANGED <<res, external, search_data, all_data, nread, bibdata, fn, arg>>

CallFixTexSS ==
    /\ pc = "call" /\ fn = "fixTexSS"
    /\ ret' = fixTexSS(arg)
    /\ pc' = "return"
    /\ UNCHANGED <<res, external, search_data, all_data, nread, bibdata, fn, arg>>

CallCreateBibentries ==
    /\ pc = "call" /\ fn = "create_bibentries"
    /\ ret' = create_bibentries(arg)
    /\ pc' = "return"
    /\ UNCHANGED <<res, external, search_data, all_data, nread, bibdata, fn, arg>>

InitFn ==
    /\ pc = "call"
    /\ \/ fn = "sort_by_handle" /\ arg \in SortKeys \X SortKeys
       \/ fn = "fixTex" /\ arg \in Titles
       \/ fn = "checkFixAuthAndComma" /\ arg \in JoinedAuthors
       \/ fn = "fixTexSS" /\ arg \in Texts
       \/ fn = "create_bibentries" /\ arg \in HitLists
    /\ ret = <<>>
    /\ res = <<>> /\ external = <<>> /\ search_data = <<>> /\ all_data = <<>>
    /\ nread = 0 /\ bibdata = <<>>

NextFn ==
    \/ CallSortByHandle
    \/ CallFixTex
    \/ CallCheckFixAuthAndComma
    \/ CallFixTexSS
    \/ CallCreateBibentries

SpecFn == InitFn /\ [][NextFn]_vars

(***************************************************************************)
(* Properties of the functions (checked under SpecFn).                     *)
(***************************************************************************)
Returned(f) == pc = "return" /\ fn = f

\* the hits of a list that line 135 does not skip
Included(hits) == {i \in 1..Len(hits) : ~("series" \in DOMAIN hits[i]
                                          /\ hits[i].series = S_TESTN)}

\* C3: when create_bibentries returns, the keys of its entries are exactly
\* the handles of the hits whose series is not "TESTN" (a hit without a
\* series included), every entry is keyed by its handle, and there are no
\* more entries than such hits.
RecordInclusion ==
    (Returned("create_bibentries") /\ ~ret.raised) =>
        /\ {ret.entries[i][1] : i \in 1..Len(ret.entries)}
               = {arg[i].handle : i \in Included(arg)}
        /\ \A i \in 1..Len(ret.entries) : ret.entries[i][2].key = ret.entries[i][1]
        /\ Len(ret.entries) <= Cardinality(Included(arg))

\* a "TESTN" hit was skipped and a hit without a series was kept
RecordInclusionWitness ==
    /\ Returned("create_bibentries") /\ ~ret.raised
    /\ Len(arg) = 2 /\ Len(ret.entries) = 1
    /\ "series" \in DOMAIN arg[1] /\ arg[1].series = S_TESTN
    /\ "series" \notin DOMAIN arg[2]
    /\ ret.entries[1][1] = arg[2].handle
    /\ arg[1].handle # arg[2].handle

\* "Dm-8" is of the form <prefix>-<digits>: one "-", digits after it
IsHandle(key) ==
    /\ Cardinality({i \in 1..Len(key) : key[i] = 45}) = 1
    /\ \E i \in 1..Len(key) :
          /\ key[i] = 45 /\ i < Len(key)
          /\ \A j \in (i + 1)..Len(key) : key[j] \in 48..57
PrefixOf(key) == SubSeq(key, 1, (CHOOSE i \in 1..Len(key) : key[i] = 45) - 1)
NumberOf(key) == int(SubSeq(key, (CHOOSE i \in 1..Len(key) : key[i] = 45) + 1, Len(key)))

\* C4: of two keys <prefix>-<digits> whose prefixes are equal ignoring case,
\* the one with the smaller number sorts first; of two keys not of that
\* form, the one with the smaller string sorts first.
HandleOrder ==
    Returned("sort_by_handle") =>
        \A i, j \in 1..2 :
            /\ (/\ IsHandle(arg[i]) /\ IsHandle(arg[j])
                /\ lower(PrefixOf(arg[i])) = lower(PrefixOf(arg[j]))
                /\ NumberOf(arg[i]) < NumberOf(arg[j]))
               => ret = <<arg[i], arg[j]>>
            /\ (~IsHandle(arg[i]) /\ ~IsHandle(arg[j]) /\ StrLess(arg[i], arg[j]))
               => ret = <<arg[i], arg[j]>>

\* every c of chars in text replaced by new(c), all at once
RECURSIVE substituteEach(_, _, _)
substituteEach(text, chars, new) ==
    IF text = <<>> THEN <<>>
    ELSE (IF Head(text) \in chars THEN new[Head(text)] ELSE <<Head(text)>>)
         \o substituteEach(Tail(text), chars, new)

\* C7: every "," and every "&" of the joined author string is replaced with
\* " and ", so that no "," and no "&" is left, and nothing else changes.
CommaAmpersand ==
    Returned("checkFixAuthAndComma") =>
        /\ ret = substituteEach(arg, {44, 38}, [c \in {44, 38} |-> S_and_sep])
        /\ \A i \in 1..Len(ret) : ret[i] \notin {44, 38}

\* C8: fixTex puts one backslash before every _ $ & % ^ # and changes
\* nothing else.
TitleEscaping ==
    Returned("fixTex") =>
        ret = substituteEach(arg, {95, 36, 38, 37, 94, 35},
                             [c \in {95, 36, 38, 37, 94, 35} |-> <<92, c>>])

\* "A & B_C" became "A \& B\_C"
TitleEscapingWitness ==
    /\ Returned("fixTex")
    /\ arg = S_title
    /\ ret = <<65, 32, 92, 38, 32, 66, 92, 95, 67>>

\* C9: when create_bibentries returns, every hit it did not skip has an
\* entry, and the url of an entry is the base URL of the hit it was made
\* from (the last one of that handle) when the hit has one, and
\* "https://ls.st/" followed by the handle otherwise.
UrlDerivation ==
    (Returned("create_bibentries") /\ ~ret.raised) =>
        /\ \A i \in Included(arg) :
              \E n \in 1..Len(ret.entries) : ret.entries[n][1] = arg[i].handle
        /\ \A n \in 1..Len(ret.entries) :
              LET from == {i \in Included(arg) : arg[i].handle = ret.entries[n][1]}
                  d == arg[CHOOSE i \in from : \A j \in from : j <= i]
              IN  ret.entries[n][2].url =
                      IF "baseUrl" \in DOMAIN d THEN d.baseUrl
                      ELSE S_ls_st \o d.handle

\* one hit has a base URL and the other has none: both have an entry
UrlDerivationWitness ==
    /\ Returned("create_bibentries") /\ ~ret.raised
    /\ Len(arg) = 2 /\ Len(ret.entries) = 2
    /\ \E i, j \in 1..2 :
          /\ "baseUrl" \in DOMAIN arg[i] /\ "baseUrl" \notin DOMAIN arg[j]
          /\ \E n \in 1..2 : /\ ret.entries[n][1] = arg[j].handle
                             /\ ret.entries[n][2].url = S_ls_st \o arg[j].handle
          /\ \E n \in 1..2 : /\ ret.entries[n][1] = arg[i].handle
                             /\ ret.entries[n][2].url = arg[i].baseUrl

\* the number of white-space separated words of a name
WordCount(name) ==
    Cardinality({i \in 1..Len(name) :
                    /\ name[i] \notin Whitespace
                    /\ (i = 1 \/ name[i - 1] \in Whitespace)})

\* a name is that of a committee or group: no comma, and "committee" or
\* "group" in it (in any letter case when anyCase), or more than five words
CommitteeLike(name, anyCase) ==
    LET n == IF anyCase THEN lower(name) ELSE name IN
    /\ ~Contains(name, <<44>>)
    /\ \/ Contains(n, S_committee)
       \/ Contains(n, S_group)
       \/ WordCount(name) > 5

\* the author string create_bibentries is said to build for one hit
AuthorsAsClaimed(anyCase) ==
    LET names == arg[1].authorNames
        author == ret.entries[1][2].author
        braced == <<123>> \o names[1] \o <<125>>
    IN  (Returned("create_bibentries") /\ Len(arg) = 1 /\ Len(ret.entries) = 1) =>
            IF Len(names) = 1 /\ CommitteeLike(names[1], anyCase)
            THEN author = braced
            ELSE /\ author = checkFixAuthAndComma(fixTexSS(join(S_and_sep, names)))
                 /\ Len(names) = 1 => author # braced

TableOrders ==
    LET n == Len(SubstTable) IN
    {[j \in 1..n |-> IF j = 1 THEN SubstTable[i]
                     ELSE IF j <= i THEN SubstTable[j - 1] ELSE SubstTable[j]] :
        i \in 1..n}
    \cup {[j \in 1..n |-> SubstTable[n + 1 - j]]}

\* the characters the table lists, and the replacement of each (of its
\* first pair)
TableChars == {SubstTable[i][1] : i \in 1..Len(SubstTable)}
TableReplacement ==
    [c \in TableChars |->
        SubstTable[CHOOSE i \in 1..Len(SubstTable) :
                      /\ SubstTable[i][1] = c
                      /\ \A j \in 1..(i - 1) : SubstTable[j][1] # c][2]]

\* C10: fixTexSS returns an ASCII text unchanged; otherwise it replaces
\* every character of the table by its replacement, all at once, and the
\* result is the same in whatever order the pairs of the table are applied.
SimultaneousSubstitution ==
    Returned("fixTexSS") =>
        /\ IsAscii(arg) => ret = arg
        /\ ret = substituteEach(arg, TableChars, TableReplacement)
        /\ \A pairs \in TableOrders : applyPairs(pairs, arg) = ret

(***************************************************************************)
(* Properties of the merge and the sort (checked under Spec).              *)
(***************************************************************************)
KeysOf(dict) == [i \in 1..Len(dict) |-> dict[i][1]]

\* the entries of dict stored under key, keys compared ignoring case
Under(dict, key) == {dict[i][2] : i \in {n \in 1..Len(dict) : lower(dict[n][1]) = lower(key)}}

Merged == pc \in {"sort", "done"}

\* the files that define key, keys compared ignoring case
Defining(key) == {f \in 1..Len(external) : Under(external[f], key) # {}}

\* the steps compute what the function computes
StepsAgree == pc = "done" => bibdata = generate_bibfile(res, external).entries

\* C1: once the external files and the search are merged, a key the search
\* produced holds the search's entry; any other key holds the entry of the
\* last file that defines it; and an entry of a file is gone only if a
\* later file or the search defines its key.
MergePrecedence ==
    Merged =>
        /\ \A key \in FileKeys \cup HitHandles :
              Under(all_data, key) =
                  IF Under(search_data, key) # {} THEN Under(search_data, key)
                  ELSE IF Defining(key) # {}
                       THEN Under(external[CHOOSE f \in Defining(key) :
                                              \A g \in Defining(key) : g <= f], key)
                       ELSE {}
        /\ \A f \in 1..Len(external) : \A e \in 1..Len(external[f]) :
              \/ external[f][e][2] \in Under(all_data, external[f][e][1])
              \/ \E g \in Defining(external[f][e][1]) : g > f
              \/ Under(search_data, external[f][e][1]) # {}

\* two files define a key with different entries and the search does not:
\* the second file's entry is kept; and the search defines a key a file
\* defines with another entry: the search's entry is kept
MergePrecedenceWitness ==
    /\ pc = "done" /\ Len(external) = 2
    /\ \E key \in FileKeys :
          /\ Defining(key) = {1, 2}
          /\ Under(search_data, key) = {}
          /\ Under(external[1], key) # Under(external[2], key)
          /\ Under(all_data, key) = Under(external[2], key)
    /\ \E key \in FileKeys :
          /\ Defining(key) # {}
          /\ Under(search_data, key) # {}
          /\ Under(all_data, key) = Under(search_data, key)

\* everything all_data was updated with so far, in order
Updates ==
    LET RECURSIVE upTo(_)
        upTo(n) == IF n = 0 THEN <<>> ELSE upTo(n - 1) \o external[n]
    IN  upTo(nread) \o (IF Merged THEN search_data ELSE <<>>)

\* C2: all_data never holds two keys equal ignoring case; it holds a key
\* for everything it was updated with; the casing it keeps for a key is the
\* first one it was given, and the entry the last one.
KeyIdentity ==
    pc \in {"read", "sort", "done"} =>
        /\ \A i, j \in 1..Len(all_data) :
              i # j => lower(all_data[i][1]) # lower(all_data[j][1])
        /\ {lower(all_data[i][1]) : i \in 1..Len(all_data)}
               = {lower(Updates[n][1]) : n \in 1..Len(Updates)}
        /\ \A i \in 1..Len(all_data) :
              LET same == {n \in 1..Len(Updates) :
                              lower(Updates[n][1]) = lower(all_data[i][1])}
                  first == CHOOSE n \in same : \A m \in same : n <= m
                  last == CHOOSE n \in same : \A m \in same : m <= n
              IN  /\ all_data[i][1] = Updates[first][1]
                  /\ all_data[i][2] = Updates[last][2]

\* a file gave "D-8", a later update gave "d-8" with another entry: one key
\* is held, "D-8", with the later entry
KeyIdentityWitness ==
    /\ pc = "done"
    /\ \E i \in 1..Len(all_data) : \E n, m \in 1..Len(Updates) :
          /\ n < m
          /\ Updates[n][1] = S_D_8 /\ Updates[m][1] = S_d_8
          /\ Updates[n][2] # Updates[m][2]
          /\ all_data[i][1] = S_D_8
          /\ all_data[i][2] # Updates[n][2]

Reorderings(seq) ==
    {[i \in 1..Len(seq) |-> seq[p[i]]] : p \in Permutations(1..Len(seq))}

\* C5: the entries are serialized in non-decreasing order of sort_by_handle,
\* and two runs that merge the same keys serialize them in the same order,
\* in whatever order the files and the hits came.
DeterministicOrder ==
    pc = "done" =>
        /\ \A i, j \in 1..Len(bibdata) :
              i < j => ~StrLess(sort_by_handle(bibdata[j][1]),
                                sort_by_handle(bibdata[i][1]))
        /\ \A files \in Reorderings(external) : \A hits \in Reorderings(res) :
              LET other == generate_bibfile(hits, files).entries IN
              {other[i][1] : i \in 1..Len(other)}
                  = {bibdata[i][1] : i \in 1..Len(bibdata)}
              => KeysOf(other) = KeysOf(bibdata)

====
